---- MODULE Spec2Model ----
(***************************************************************************)
(* SoapRetrieve (src/soap_retrieve.py) and RetrieveSend                    *)
(* (src/soap_vincidia.py): paginated SOAP retrieve with a tenacity retry   *)
(* wrapper around submit_request, asyncio.gather of the response callback  *)
(* with the next submission, and pause / resume.                           *)
(*                                                                         *)
(* One "activation" is one attempt of the retry-wrapped submit_request:    *)
(* it issues one external Retrieve call, classifies the response and       *)
(* gathers two tasks, the response callback (handler) and                  *)
(* _submit_next_request.  asyncio.gather without return_exceptions raises  *)
(* the first exception to its awaiter and leaves the other task running.   *)
(***************************************************************************)
EXTENDS Integers, Sequences, FiniteSets, TLC

\* ---------------------------------------------------------------- bounds
MaxActs == 3        \* external Retrieve calls issued over the whole behaviour
MaxRuns == 2        \* top-level get / resume_request calls
max_retries == 2    \* SfmcConfig.max_retries, stop_after_attempt(...)

\* ------------------------------------------------------------ value sets
None == "None"
\* RequestID values: the service issues a fresh one per response (the number
\* of the call it answers); NoRequestID: the field is unset
NoRequestID == 0
ForeignRequestID == 9
SendProperties == "SendProperties"
Epoch == 0
NowTimes == {2}
\* a start / end argument that is not a datetime: None, or a value of
\* another type (a date string)
NoTime == -1
NotADatetime == -2

\* exception kinds
IngestServiceException == "IngestServiceException"
InvalidResponse == "IngestDataRetrieveException: Invalid Response"
StatusError == "IngestDataRetrieveException: Status Error in Response"
RetryError == "RetryError"
TransportOther == "TransportOther"
HandlerError == "HandlerError"
PauseError == "PauseError"

\* what the caller-supplied callbacks may raise: an error of their own, or
\* the service exception of the ingest library
HandlerFailures == {HandlerError, IngestServiceException}
PauseFailures == {PauseError, IngestServiceException}

\* OverallStatus values of a response; Absent: the key is not in the response
Absent == "Absent"
Success == "Success"
MoreDataAvailable == "MoreDataAvailable"
ErrorStatus == "Error: Invalid ObjectType"
Statuses == {Absent, Success, MoreDataAvailable, ErrorStatus}

VARIABLES acts, runs, pauses

vars == <<acts, runs, pauses>>

\* ------------------------------------------------------ request builders
\* Filter=None
NoFilter == [Property |-> None, SimpleOperator |-> None, DateValue |-> <<>>]

\* isinstance(t, datetime): datetimes are the times from Epoch on
IsDatetime(t) == t >= Epoch

\* mutant: a start that is not a datetime defaults to the current time
build_common_request_StartNow(object_type, properties, start_datetime, end_datetime, filter_date_field, now) ==
    LET start == IF ~IsDatetime(start_datetime) THEN now ELSE start_datetime
        end == IF ~IsDatetime(end_datetime) THEN now ELSE end_datetime
        simplefilter == IF filter_date_field # "" /\ filter_date_field # None
                        THEN [Property |-> filter_date_field,
                              SimpleOperator |-> "between",
                              DateValue |-> <<start, end>>]
                        ELSE NoFilter
    IN [ObjectType |-> object_type, Properties |-> properties,
        Filter |-> simplefilter, ContinueRequest |-> NoRequestID]

\* build_common_request: start / end default when they are not datetimes,
\* the filter is attached only for a non-empty field name.
build_common_request(object_type, properties, start_datetime, end_datetime, filter_date_field, now) ==
    LET start == IF ~IsDatetime(start_datetime) THEN Epoch ELSE start_datetime
        end == IF ~IsDatetime(end_datetime) THEN now ELSE end_datetime
        simplefilter == IF filter_date_field # "" /\ filter_date_field # None
                        THEN [Property |-> filter_date_field,
                              SimpleOperator |-> "between",
                              DateValue |-> <<start, end>>]
                        ELSE NoFilter
    IN [ObjectType |-> object_type, Properties |-> properties,
        Filter |-> simplefilter, ContinueRequest |-> NoRequestID]

\* req_base(ObjectType=..., ContinueRequest=...): every other field unset
req_base(object_type, continue_request) ==
    [ObjectType |-> object_type, Properties |-> None,
     Filter |-> NoFilter, ContinueRequest |-> continue_request]

\* _submit_next_request, else branch: the continuation request
ContinuationRequest(request, response) ==
    req_base(request.ObjectType, response.RequestID)

\* mutant: the paused dict carries the token the request was submitted with
PausedDict_StaleToken(request, response) ==
    [oauth |-> "ctx", object_type |-> request.ObjectType,
     continue_request |-> request.ContinueRequest]

\* _submit_next_request, if branch: the dict handed to pause_callback
PausedDict(request, response) ==
    [oauth |-> "ctx", object_type |-> request.ObjectType,
     continue_request |-> response.RequestID]

\* resume_request: the request rebuilt from the paused dict
ResumeRequest(paused) ==
    req_base(paused.object_type, paused.continue_request)

\* RetrieveSend.get with its default arguments
GetRequest(now) ==
    build_common_request("Send", SendProperties, Epoch, NoTime, "ModifiedDate", now)

\* --------------------------------------------------------- classification
\* submit_request lines 64-68: the exception a response raises, None if it
\* passes
Classify(status) ==
    IF status = Absent THEN InvalidResponse
    ELSE IF status = ErrorStatus THEN StatusError
    ELSE None

\* mutant: any status that is present continues the pagination
IsMoreData_AnyStatus(status) == status # Absent

\* _submit_next_request line 80
IsMoreData(status) == status # Absent /\ status = MoreDataAvailable

\* mutant: every exception is retried
ShouldRetry_AnyException(e, attempt) == attempt < max_retries

\* retry=retry_if_exception_type(IngestServiceException),
\* stop=stop_after_attempt(max_retries)
ShouldRetry(e, attempt) == e = IngestServiceException /\ attempt < max_retries

\* tenacity without reraise=True: an exhausted budget raises RetryError
\* wrapping the last attempt; an exception that is not retried passes through
Surfaced(e) == IF e = IngestServiceException THEN RetryError ELSE e

\* ------------------------------------------------------------ activations
\* One attempt of submit_request.  run, page: the top-level call and the place
\* in its pagination chain; parent: the activation whose _submit_next_request
\* awaits this call (0: the top-level caller); pc: "call" while the Retrieve
\* call is outstanding, "gather" while the gather is awaited, then "ok",
\* "raised" or "retried"; exc: the exception the attempt ended with, err: the
\* exception the retry wrapper raised to the awaiter; status, RequestID: the
\* response (None while there is none); tp: what
\* is_it_time_to_pause() answered, "none" if it was not asked; hs, ns: the
\* handler task and the _submit_next_request task.
NewAct(run, page, parent, attempt, req) ==
    [run |-> run, page |-> page, parent |-> parent, attempt |-> attempt,
     req |-> req, pc |-> "call", exc |-> None, err |-> None,
     status |-> None, RequestID |-> NoRequestID,
     tp |-> "none", hs |-> "none", ns |-> "none"]

\* The body of activation a raised e: tenacity retries (a fresh attempt of
\* the same request) or raises to the awaiter, which is the caller of the
\* top-level call (parent 0) or the _submit_next_request task of the parent,
\* whose gather then raises in turn if it is still pending.
RECURSIVE Raise(_, _, _)
Raise(as, a, e) ==
    IF ShouldRetry(e, as[a].attempt)
    THEN Append([as EXCEPT ![a].pc = "retried", ![a].exc = e],
                NewAct(as[a].run, as[a].page, as[a].parent,
                       as[a].attempt + 1, as[a].req))
    ELSE LET e2 == Surfaced(e)
             as2 == [as EXCEPT ![a].pc = "raised", ![a].exc = e, ![a].err = e2]
             p == as[a].parent
         IN IF p = 0 THEN as2
            ELSE LET as3 == [as2 EXCEPT ![p].ns = "failed"]
                 IN IF as[p].pc = "gather" THEN Raise(as3, p, e2) ELSE as3

\* gather returns once both tasks are done; submit_request then returns to
\* its awaiter, whose own gather may return in turn.
GatherDone(act) == act.pc = "gather" /\ act.hs = "done" /\ act.ns = "done"

RECURSIVE Return(_, _)
Return(as, a) ==
    IF ~GatherDone(as[a]) THEN as
    ELSE LET as2 == [as EXCEPT ![a].pc = "ok"]
             p == as[a].parent
         IN IF p = 0 THEN as2
            ELSE Return([as2 EXCEPT ![p].ns = "done"], p)

\* ------------------------------------------------------------------ runs
\* the activation the top-level call of run r is awaiting: the last attempt
\* of its first page
TopActs(r) == {i \in 1..Len(acts) : acts[i].run = r /\ acts[i].parent = 0}
Max(S) == CHOOSE x \in S : \A y \in S : y <= x
TopAct(r) == Max(TopActs(r))
RunReturned(r) == acts[TopAct(r)].pc = "ok"
RunRaised(r) == acts[TopAct(r)].pc = "raised"
RunOver(r) == RunReturned(r) \/ RunRaised(r)

Init ==
    /\ acts = <<>>
    /\ runs = <<>>
    /\ pauses = <<>>

NoPaused == [oauth |-> Absent, object_type |-> None, continue_request |-> NoRequestID]

\* RetrieveSend.get: build the request, submit it
Get ==
    /\ runs = <<>>
    /\ \E now \in NowTimes :
         /\ acts' = Append(acts, NewAct(1, 1, 0, 1, GetRequest(now)))
         /\ runs' = Append(runs, [kind |-> "get", paused |-> NoPaused,
                                  restored |-> FALSE])
    /\ UNCHANGED pauses

\* the dicts resume_request may be given: a dict from elsewhere on the first
\* call (another object type, a RequestID this service instance did not
\* issue), a dict the pause callback received once a run is over
PausedInputs ==
    IF runs = <<>>
    THEN {[oauth |-> "ctx", object_type |-> "Email",
           continue_request |-> ForeignRequestID]}
    ELSE {pauses[i].state : i \in 1..Len(pauses)}

\* resume_request continues a paused walk in a later worker invocation
\* (is_it_time_to_pause comes from the lambda launcher): the invocation that
\* made the earlier calls has ended, its event loop is closed and the tasks
\* still pending in it are cancelled
Cancelled(act) ==
    [act EXCEPT !.pc = IF @ \in {"call", "gather"} THEN "cancelled" ELSE @,
                !.hs = IF @ = "running" THEN "cancelled" ELSE @,
                !.ns = IF @ \in {"call", "pause"} THEN "cancelled" ELSE @]

\* resume_request, in a later worker invocation
Resume(paused) ==
    /\ Len(runs) < MaxRuns
    /\ Len(acts) < MaxActs
    /\ runs # <<>> => RunOver(Len(runs))
    /\ acts' = Append([i \in 1..Len(acts) |-> Cancelled(acts[i])],
                      NewAct(Len(runs) + 1, 1, 0, 1, ResumeRequest(paused)))
    /\ runs' = Append(runs, [kind |-> "resume", paused |-> paused,
                             restored |-> (paused.oauth # Absent)])
    /\ UNCHANGED pauses

\* ------------------------------------------------------- external service
\* the Retrieve call of activation a fails in the transport
RetrieveFails(a, e) ==
    /\ acts[a].pc = "call"
    /\ ShouldRetry(e, acts[a].attempt) => Len(acts) < MaxActs
    /\ acts' = Raise(acts, a, e)
    /\ UNCHANGED <<runs, pauses>>

\* the responses the service may give: the RequestID is read only when the
\* status is MoreDataAvailable, and may be unset there
Responses(a) ==
    {[OverallStatus |-> s, RequestID |-> a] : s \in Statuses}
    \cup {[OverallStatus |-> MoreDataAvailable, RequestID |-> NoRequestID]}

\* mutant: the gather is awaited without the response callback among its tasks
StartGather_NoHandler(as, a) == [as EXCEPT ![a].pc = "gather"]

\* submit_request lines 69-71: the gather is awaited and its first task, the
\* response callback, is started on the response
StartGather(as, a) == [as EXCEPT ![a].pc = "gather", ![a].hs = "running"]

\* mutant: the continuation call goes on counting where the attempts of the
\* page before stopped
NextFirstStep_SharedBudget(as, ps, a, pause) ==
    IF ~IsMoreData(as[a].status)
    THEN <<[as EXCEPT ![a].ns = "done"], ps>>
    ELSE IF pause
    THEN <<[as EXCEPT ![a].ns = "pause", ![a].tp = "true"],
           Append(ps, [act |-> a, run |-> as[a].run,
                       state |-> PausedDict(as[a].req, as[a])])>>
    ELSE <<Append([as EXCEPT ![a].ns = "call", ![a].tp = "false"],
                  NewAct(as[a].run, as[a].page + 1, a, as[a].attempt,
                         ContinuationRequest(as[a].req, as[a]))), ps>>

\* _submit_next_request of activation a up to its first await, on the
\* response the activation holds: nothing to do on a terminal status; the
\* paused dict handed to pause_callback when is_it_time_to_pause(); else the
\* continuation request submitted
NextFirstStep(as, ps, a, pause) ==
    IF ~IsMoreData(as[a].status)
    THEN <<[as EXCEPT ![a].ns = "done"], ps>>
    ELSE IF pause
    THEN <<[as EXCEPT ![a].ns = "pause", ![a].tp = "true"],
           Append(ps, [act |-> a, run |-> as[a].run,
                       state |-> PausedDict(as[a].req, as[a])])>>
    ELSE <<Append([as EXCEPT ![a].ns = "call", ![a].tp = "false"],
                  NewAct(as[a].run, as[a].page + 1, a, 1,
                         ContinuationRequest(as[a].req, as[a]))), ps>>

\* the Retrieve call of activation a returns a response.  A response that
\* fails classification raises; one that passes starts the gather: the
\* event loop runs the first step of the handler task, then the first step
\* of the _submit_next_request task, before anything else (pause: what
\* is_it_time_to_pause() answers, read only on MoreDataAvailable).
RetrieveResponds(a, status, token, pause) ==
    /\ acts[a].pc = "call"
    /\ LET as2 == [acts EXCEPT ![a].status = status, ![a].RequestID = token]
       IN IF Classify(status) # None
          THEN /\ acts' = Raise(as2, a, Classify(status))
               /\ UNCHANGED pauses
          ELSE /\ (IsMoreData(status) /\ ~pause) => Len(acts) < MaxActs
               /\ LET r == NextFirstStep(StartGather(as2, a), pauses, a, pause)
                  IN /\ acts' = r[1]
                     /\ pauses' = r[2]
    /\ UNCHANGED runs

\* ----------------------------------------------------------------- tasks
\* the response callback of activation a returns
HandlerDone(a) ==
    /\ acts[a].hs = "running"
    /\ acts' = Return([acts EXCEPT ![a].hs = "done"], a)
    /\ UNCHANGED <<runs, pauses>>

\* the response callback of activation a raises
HandlerFails(a, e) ==
    /\ acts[a].hs = "running"
    /\ (acts[a].pc = "gather" /\ ShouldRetry(e, acts[a].attempt))
          => Len(acts) < MaxActs
    /\ LET as2 == [acts EXCEPT ![a].hs = "failed"]
       IN acts' = IF acts[a].pc = "gather" THEN Raise(as2, a, e) ELSE as2
    /\ UNCHANGED <<runs, pauses>>

\* pause_callback returns
PauseDone(a) ==
    /\ acts[a].ns = "pause"
    /\ acts' = Return([acts EXCEPT ![a].ns = "done"], a)
    /\ UNCHANGED <<runs, pauses>>

\* pause_callback raises
PauseFails(a, e) ==
    /\ acts[a].ns = "pause"
    /\ (acts[a].pc = "gather" /\ ShouldRetry(e, acts[a].attempt))
          => Len(acts) < MaxActs
    /\ LET as2 == [acts EXCEPT ![a].ns = "failed"]
       IN acts' = IF acts[a].pc = "gather" THEN Raise(as2, a, e) ELSE as2
    /\ UNCHANGED <<runs, pauses>>

Next ==
    \/ Get
    \/ \E paused \in PausedInputs : Resume(paused)
    \/ \E a \in 1..Len(acts), e \in {IngestServiceException, TransportOther} :
         RetrieveFails(a, e)
    \/ \E a \in 1..Len(acts), pause \in BOOLEAN : \E r \in Responses(a) :
         RetrieveResponds(a, r.OverallStatus, r.RequestID, pause)
    \/ \E a \in 1..Len(acts) : HandlerDone(a)
    \/ \E a \in 1..Len(acts), e \in HandlerFailures : HandlerFails(a, e)
    \/ \E a \in 1..Len(acts) : PauseDone(a)
    \/ \E a \in 1..Len(acts), e \in PauseFailures : PauseFails(a, e)

Spec == Init /\ [][Next]_vars

\* ------------------------------------------------------------ vocabulary
Runs == 1..Len(runs)
ActsOf(r) == {i \in 1..Len(acts) : acts[i].run = r}
\* the handler was invoked on the response of activation i
Handled(i) == acts[i].hs # "none"
HandlerCalls(r) == Cardinality({i \in ActsOf(r) : Handled(i)})
PausesOf(r) == {k \in 1..Len(pauses) : pauses[k].run = r}
PauseCalls(r) == Cardinality(PausesOf(r))
\* the later attempts of the submit_request call activation i belongs to
LaterAttempts(i) ==
    {j \in ActsOf(acts[i].run) : j > i /\ acts[j].parent = acts[i].parent}
\* the calls made by the _submit_next_request task of activation i
Children(i) == {j \in 1..Len(acts) : acts[j].parent = i}

TypeOK ==
    /\ Len(acts) <= MaxActs
    /\ Len(runs) <= MaxRuns
    /\ \A i \in 1..Len(acts) :
         /\ acts[i].pc \in {"call", "gather", "ok", "raised", "retried", "cancelled"}
         /\ acts[i].hs \in {"none", "running", "done", "failed", "cancelled"}
         /\ acts[i].ns \in {"none", "call", "pause", "done", "failed",
                            "cancelled"}
         /\ acts[i].attempt \in 1..max_retries
         /\ acts[i].parent \in 0..(i - 1)
         /\ acts[i].tp \in {"none", "true", "false"}

\* ---------------------------------------------------------------- C1
\* no transient failure, no classification failure, no pause and no failing
\* callback in run r so far
CleanRun(r) ==
    \A i \in ActsOf(r) :
        /\ acts[i].attempt = 1
        /\ acts[i].pc = "call" \/ acts[i].status \in {MoreDataAvailable, Success}
        /\ acts[i].tp # "true"
        /\ acts[i].hs # "failed"

MoreDataCount(r) ==
    Cardinality({i \in ActsOf(r) : acts[i].status = MoreDataAvailable})

\* C1: a run answered MoreDataAvailable N times and then Success, with no
\* transient failure, no pause and no failing callback, has made exactly N+1
\* submissions and N+1 handler invocations, has not invoked the pause
\* notifier, has not raised, and has returned once its handlers are done.
C1_PaginationTermination ==
    \A r \in Runs :
        (CleanRun(r) /\ \E i \in ActsOf(r) : acts[i].status = Success) =>
            /\ Cardinality(ActsOf(r)) = MoreDataCount(r) + 1
            /\ HandlerCalls(r) = MoreDataCount(r) + 1
            /\ PauseCalls(r) = 0
            /\ ~RunRaised(r)
            /\ (\A i \in ActsOf(r) : acts[i].hs = "done") => RunReturned(r)

\* C1 witness: MoreDataAvailable, MoreDataAvailable, Success: three handler
\* calls, no pause, the top-level call returned
C1_Witness ==
    \E r \in Runs :
        /\ CleanRun(r)
        /\ MoreDataCount(r) = 2
        /\ \E i \in ActsOf(r) : acts[i].status = Success
        /\ HandlerCalls(r) = 3
        /\ PauseCalls(r) = 0
        /\ RunReturned(r)

\* ---------------------------------------------------------------- C2
\* C2 (as claimed): once is_it_time_to_pause() was true at the boundary of
\* activation a, the run has handed exactly one paused dict to the pause
\* notifier, it carries the RequestID of a's response and the object type of
\* a's request, and the run has submitted no request for the next page.
C2_PauseFidelity ==
    \A a \in 1..Len(acts) :
        acts[a].tp = "true" =>
            /\ PauseCalls(acts[a].run) = 1
            /\ \A k \in PausesOf(acts[a].run) :
                 /\ pauses[k].state.continue_request = acts[a].RequestID
                 /\ pauses[k].state.object_type = acts[a].req.ObjectType
            /\ \A j \in ActsOf(acts[a].run) : acts[j].page # acts[a].page + 1

\* ---------------------------------------------------------------- C3
\* the attempts of the submit_request call activation i belongs to
Attempts(i) ==
    {j \in ActsOf(acts[i].run) : acts[j].parent = acts[i].parent}

\* the Retrieve call of attempt j failed with a transient failure
CallFailedTransient(j) ==
    acts[j].status = None /\ acts[j].exc = IngestServiceException

\* every attempt of the call, up to the last allowed one, failed in the
\* Retrieve call with a transient failure
BudgetExhausted(i) ==
    /\ acts[i].attempt = max_retries
    /\ \A j \in Attempts(i) : CallFailedTransient(j)

\* C3 (as claimed): after max_retries consecutive transient failures of a
\* page's Retrieve call, the call was attempted exactly max_retries times,
\* the handler was not invoked for the page, and submit_request raised the
\* transient failure itself to its awaiter.
C3_RetryBound ==
    \A i \in 1..Len(acts) :
        BudgetExhausted(i) =>
            /\ Cardinality(Attempts(i)) = max_retries
            /\ \A j \in Attempts(i) : ~Handled(j)
            /\ acts[i].pc = "raised"
            /\ acts[i].err = IngestServiceException

\* ---------------------------------------------------------------- C4
\* the response of activation i failed classification
FailedClassification(i) == acts[i].status \in {Absent, ErrorStatus}

\* C4: a response without status, or with an Error status, raises the
\* non-retryable IngestDataRetrieveException to the awaiter of
\* submit_request at once: no later attempt of the call, no handler
\* invocation on the response, no pause decision, no continuation.
C4_DataErrorsNotRetried ==
    \A i \in 1..Len(acts) :
        FailedClassification(i) =>
            /\ acts[i].pc = "raised"
            /\ acts[i].err \in {InvalidResponse, StatusError}
            /\ acts[i].err = acts[i].exc
            /\ LaterAttempts(i) = {}
            /\ acts[i].attempt = 1 => Attempts(i) = {i}
            /\ ~Handled(i)
            /\ acts[i].tp = "none" /\ acts[i].ns = "none"
            /\ Children(i) = {}
            /\ acts[i].parent = 0 => (RunRaised(acts[i].run)
                                      /\ TopAct(acts[i].run) = i)
            /\ acts[i].parent # 0 =>
                 /\ acts[acts[i].parent].ns = "failed"
                 /\ acts[acts[i].parent].pc \in {"raised", "retried"}

\* C4 witness: "Error: Invalid ObjectType" on the first attempt of page 2
\* has ended the run with the status error, with one handler call (page 1)
C4_Witness ==
    \E i \in 1..Len(acts) :
        /\ acts[i].status = ErrorStatus
        /\ acts[i].attempt = 1
        /\ acts[i].page = 2
        /\ RunRaised(acts[i].run)
        /\ acts[TopAct(acts[i].run)].err = StatusError
        /\ HandlerCalls(acts[i].run) = 1

\* ---------------------------------------------------------------- C5
\* C5 (as claimed): a page whose Retrieve call returned a response that
\* passed classification is not submitted again in that run.
C5_ValidPageNotResubmitted ==
    \A i, j \in 1..Len(acts) :
        (/\ i < j
         /\ acts[i].run = acts[j].run
         /\ acts[i].page = acts[j].page) => ~Handled(i)

\* ---------------------------------------------------------------- C6
\* submit has raised the handler's own failure to the caller of run r
HandlerFailureSurfaced(r) ==
    RunRaised(r) /\ acts[TopAct(r)].err = HandlerError

\* what run r has done so far: submissions, handler invocations, pause
\* notifications
Footprint(r) ==
    <<ActsOf(r), {i \in ActsOf(r) : Handled(i)}, PausesOf(r)>>

\* C6 (as claimed): once the top-level call has raised the handler's
\* failure, the run issues no further submission, invokes the handler no
\* more and notifies no pause.
C6_HandlerFailureAborts ==
    [][\A r \in Runs :
          HandlerFailureSurfaced(r) => Footprint(r)' = Footprint(r)]_vars

\* ---------------------------------------------------------------- C7
\* C7 (as claimed): while the handler of a page has not completed, the run
\* has issued no submission two or more pages further on.
C7_BoundedLookAhead ==
    \A i, j \in 1..Len(acts) :
        (acts[i].run = acts[j].run /\ acts[i].hs = "running") =>
            acts[j].page < acts[i].page + 2

\* C7 (amended): the look-ahead is bounded by handler invocation, not by
\* handler completion: every submission for a page N+1 was issued by the
\* _submit_next_request task of a page-N response that had already been
\* handed to the handler, and that response was MoreDataAvailable.
C7_LookAheadAfterHandlerStart ==
    \A j \in 1..Len(acts) :
        acts[j].parent # 0 =>
            /\ Handled(acts[j].parent)
            /\ acts[acts[j].parent].status = MoreDataAvailable
            /\ acts[j].page = acts[acts[j].parent].page + 1
            /\ acts[j].run = acts[acts[j].parent].run

\* C7 witness: page 3 is submitted while the handler of page 1 is running,
\* in a run without any failure
C7_Witness ==
    \E i, j \in 1..Len(acts) :
        /\ acts[i].run = acts[j].run
        /\ CleanRun(acts[i].run)
        /\ acts[i].page = 1 /\ acts[i].hs = "running"
        /\ acts[j].page = 3 /\ acts[j].pc = "call"

\* ---------------------------------------------------------------- C8
\* C8 (as claimed): an attempt returns normally only with both its tasks
\* done, and the top-level call has returned normally only when every
\* handler invoked in the run has completed, no call of the run is
\* outstanding, and the run has reached a terminal status or a pause.
C8_JoinBeforeReturn ==
    /\ \A i \in 1..Len(acts) :
         acts[i].pc = "ok" => (acts[i].hs = "done" /\ acts[i].ns = "done")
    /\ \A r \in Runs :
         RunReturned(r) =>
            /\ \A i \in ActsOf(r) :
                 /\ acts[i].hs \notin {"running", "cancelled"}
                 /\ acts[i].pc \notin {"call", "cancelled"}
            /\ \E i \in ActsOf(r) :
                 acts[i].status = Success \/ acts[i].tp = "true"

\* ---------------------------------------------------------------- C9
Min(S) == CHOOSE x \in S : \A y \in S : x <= y

\* C9 (as claimed): a resume run first submits the request made of the
\* paused dict's object type and continuation token alone, with the auth
\* context restored; once a submission of it is answered Success the handler
\* has been invoked exactly once in the run and nothing is submitted after.
C9_ResumeCorrectness ==
    \A r \in Runs :
        runs[r].kind = "resume" =>
            /\ runs[r].restored
            /\ acts[Min(ActsOf(r))].req =
                 [ObjectType |-> runs[r].paused.object_type,
                  Properties |-> None, Filter |-> NoFilter,
                  ContinueRequest |-> runs[r].paused.continue_request]
            /\ \A i \in ActsOf(r) :
                 (acts[i].parent = 0 /\ acts[i].status = Success) =>
                    /\ HandlerCalls(r) = 1
                    /\ \A j \in ActsOf(r) : j <= i

\* ---------------------------------------------------------------- C10
\* C10 (as claimed): a run notifies at most one pause, and only at a
\* boundary whose response was MoreDataAvailable and where
\* is_it_time_to_pause() was true.
C10_PauseAtMostOnce ==
    /\ \A r \in Runs : PauseCalls(r) <= 1
    /\ \A k \in 1..Len(pauses) :
         /\ acts[pauses[k].act].status = MoreDataAvailable
         /\ acts[pauses[k].act].tp = "true"
         /\ acts[pauses[k].act].run = pauses[k].run

\* ---------------------------------------------------------------- C11
\* C11 (as claimed): every paused dict handed to the pause callback follows
\* a response whose status was MoreDataAvailable, and its continuation
\* token is set.
C11_PausedStateTokenValid ==
    \A k \in 1..Len(pauses) :
        /\ acts[pauses[k].act].status = MoreDataAvailable
        /\ pauses[k].state.continue_request # NoRequestID

\* ---------------------------------------------------------------- C12
\* the outcomes of a top-level call that is over
\* every page was fetched up to a terminal status and every handler is done
Completed(r) ==
    /\ RunReturned(r)
    /\ PauseCalls(r) = 0
    /\ \E i \in ActsOf(r) : acts[i].status = Success
    /\ \A i \in ActsOf(r) : Handled(i) => acts[i].hs = "done"

\* a paused dict was handed to the pause callback and the call returned
PausedOut(r) == RunReturned(r) /\ PauseCalls(r) >= 1

\* the failures themselves, as raised where they happened: the transient
\* failure, the two classification failures, what a callback raised, and a
\* transport failure that is passed through
FailureKinds ==
    {IngestServiceException, InvalidResponse, StatusError, HandlerError,
     PauseError, TransportOther}

\* the caller was raised one of the failures, unchanged
Errored(r) == RunRaised(r) /\ acts[TopAct(r)].err \in FailureKinds

\* a call that returned normally had no failing callback and no call of its
\* chain that raised
NothingSwallowed(r) ==
    RunReturned(r) =>
        \A i \in ActsOf(r) :
            /\ acts[i].hs # "failed"
            /\ acts[i].ns # "failed"
            /\ acts[i].pc # "raised"

\* C12 (as claimed): a top-level call that is over ended in exactly one of
\* three ways: all pages completed, a paused dict handed off, or one of the
\* error kinds raised to the caller; and no failure was swallowed.
C12_JobOutcome ==
    \A r \in Runs :
        RunOver(r) =>
            /\ Cardinality({o \in {"completed", "paused", "error"} :
                   \/ o = "completed" /\ Completed(r)
                   \/ o = "paused" /\ PausedOut(r)
                   \/ o = "error" /\ Errored(r)}) = 1
            /\ NothingSwallowed(r)

\* ---------------------------------------------------------------- C13
\* the attempt answered with a response that passed classification
PassedClassification(i) ==
    acts[i].status \in Statuses /\ Classify(acts[i].status) = None

\* C13: is_it_time_to_pause() is asked once for a response exactly when the
\* response passed classification with status MoreDataAvailable, and a
\* continuation request or a paused dict exists only after it was asked (and
\* according to its answer); an attempt whose Retrieve call failed, or was
\* answered with another status, has not asked, so the attempts of one call
\* have asked exactly as often as they were answered MoreDataAvailable.
C13_PauseConsultedOncePerBoundary ==
    /\ \A i \in 1..Len(acts) :
         /\ acts[i].tp # "none"
              <=> (PassedClassification(i) /\ acts[i].status = MoreDataAvailable)
         /\ Children(i) # {} => acts[i].tp = "false"
         /\ acts[i].tp = "false" => Children(i) # {}
         /\ (\E k \in 1..Len(pauses) : pauses[k].act = i) <=> acts[i].tp = "true"
         /\ Cardinality({j \in Attempts(i) : acts[j].tp # "none"})
              = Cardinality({j \in Attempts(i) :
                                acts[j].status = MoreDataAvailable})
    /\ \A k, l \in 1..Len(pauses) : pauses[k].act = pauses[l].act => k = l

\* C13 witness: a page whose Retrieve call failed transiently and was retried,
\* then answered MoreDataAvailable: asked once, by the second attempt only;
\* the next page was answered Success and did not ask
C13_Witness ==
    \E i, j, c \in 1..Len(acts) :
        /\ j \in LaterAttempts(i)
        /\ CallFailedTransient(i) /\ acts[i].tp = "none"
        /\ acts[j].status = MoreDataAvailable /\ acts[j].tp = "false"
        /\ c \in Children(j)
        /\ acts[c].status = Success /\ Handled(c) /\ acts[c].tp = "none"

\* ---------------------------------------------------------------- C14
\* the distinct pages of run r fetched with a response that passed
\* classification
PagesFetched(r) ==
    {acts[i].page : i \in {j \in ActsOf(r) : PassedClassification(j)}}

\* C14 (as claimed): every response that passed classification was handed
\* to the handler, and the number of handler invocations of a run equals the
\* number of distinct pages it fetched successfully.
C14_ExactlyOnceDispatch ==
    /\ \A i \in 1..Len(acts) : PassedClassification(i) <=> Handled(i)
    /\ \A r \in Runs : HandlerCalls(r) = Cardinality(PagesFetched(r))

\* ---------------------------------------------------------------- C15
\* build_common_request on its own: the arguments a caller may pass and the
\* request each call returns.  Under SpecBuild the variable runs holds the
\* argument list of the last call and acts the request it returned.
MaxTime == 2
TimeArgs == (Epoch..MaxTime) \cup {NoTime, NotADatetime}
FilterFields == {"ModifiedDate", "CreatedDate", "", None}
ObjectTypes == {"Send", "Email"}

InitBuild ==
    /\ acts = <<>>
    /\ runs = <<>>
    /\ pauses = <<>>

\* one call of build_common_request, at time now
BuildCommonRequest(object_type, start_datetime, end_datetime, filter_date_field, now) ==
    /\ runs' = <<[object_type |-> object_type, properties |-> SendProperties,
                  start_datetime |-> start_datetime,
                  end_datetime |-> end_datetime,
                  filter_date_field |-> filter_date_field, now |-> now]>>
    /\ acts' = <<build_common_request(object_type, SendProperties,
                                      start_datetime, end_datetime,
                                      filter_date_field, now)>>
    /\ UNCHANGED pauses

NextBuild ==
    \E object_type \in ObjectTypes, start_datetime \in TimeArgs,
       end_datetime \in TimeArgs, filter_date_field \in FilterFields,
       now \in Epoch..MaxTime :
        BuildCommonRequest(object_type, start_datetime, end_datetime,
                           filter_date_field, now)

SpecBuild == InitBuild /\ [][NextBuild]_vars

\* C15: with a non-empty filter field the request built carries a 'between'
\* filter on that field, from the start given (the epoch when it is not a
\* datetime) to the end given (the current time when it is not a datetime),
\* so lower <= upper whenever both are given with start <= end; with an
\* empty field or none there is no filter; the object type and properties
\* are the ones given and the continuation token is unset.
C15_BuildCommonRequest ==
    \A k \in 1..Len(acts) :
        LET arg == runs[k]
            out == acts[k]
            given(t) == t \in Epoch..MaxTime
        IN /\ out.ObjectType = arg.object_type
           /\ out.Properties = arg.properties
           /\ out.ContinueRequest = NoRequestID
           /\ arg.filter_date_field \in {"", None} => out.Filter = NoFilter
           /\ arg.filter_date_field \notin {"", None} =>
                /\ out.Filter.Property = arg.filter_date_field
                /\ out.Filter.SimpleOperator = "between"
                /\ Len(out.Filter.DateValue) = 2
                /\ given(arg.start_datetime)
                     => out.Filter.DateValue[1] = arg.start_datetime
                /\ ~given(arg.start_datetime)
                     => out.Filter.DateValue[1] = Epoch
                /\ given(arg.end_datetime)
                     => out.Filter.DateValue[2] = arg.end_datetime
                /\ ~given(arg.end_datetime)
                     => out.Filter.DateValue[2] = arg.now
                /\ (given(arg.start_datetime) /\ given(arg.end_datetime)
                      /\ arg.start_datetime <= arg.end_datetime)
                     => out.Filter.DateValue[1] <= out.Filter.DateValue[2]

\* C15 witness: a start that is a string and no end, filtered on
\* ModifiedDate: the range runs from the epoch to a later current time
C15_Witness ==
    \E k \in 1..Len(acts) :
        /\ runs[k].start_datetime = NotADatetime
        /\ runs[k].end_datetime = NoTime
        /\ runs[k].filter_date_field = "ModifiedDate"
        /\ runs[k].now > Epoch
        /\ acts[k].Filter.DateValue = <<Epoch, runs[k].now>>

\* ---------------------------------------------------------------- C16
\* run r so far had no failing Retrieve call, no response failing
\* classification and no failing callback (it may have paused)
FailureFree(r) ==
    \A i \in ActsOf(r) :
        /\ acts[i].attempt = 1
        /\ acts[i].pc = "call" \/ acts[i].status \in {MoreDataAvailable, Success}
        /\ acts[i].hs # "failed"
        /\ acts[i].ns # "failed"

\* walk r follows the law of an uninterrupted walk: one submission per page,
\* each page after the first submitted with the continuation request built
\* from the page before, each answered page handed to the handler (once: an
\* activation holds one handler task)
UninterruptedLaw(r) ==
    /\ \A i, j \in ActsOf(r) : acts[i].page = acts[j].page => i = j
    /\ \A j \in ActsOf(r) :
         /\ acts[j].parent # 0 =>
              /\ acts[acts[j].parent].page + 1 = acts[j].page
              /\ acts[j].req = ContinuationRequest(acts[acts[j].parent].req,
                                                   acts[acts[j].parent])
         /\ PassedClassification(j) <=> Handled(j)

\* run r is resume_request on the dict emitted as pauses[k] by an earlier
\* run, and neither run had a failure
ResumedFrom(r, k) ==
    /\ runs[r].kind = "resume"
    /\ pauses[k].run < r
    /\ runs[r].paused = pauses[k].state
    /\ FailureFree(pauses[k].run)
    /\ FailureFree(r)

\* C16: a run paused at a boundary followed by resume_request on the dict it
\* emitted continues as the uninterrupted walk would: the paused run handled
\* each of its pages up to the boundary once and fetched nothing beyond it,
\* the resumed run's first submission is the very continuation request the
\* paused run would have submitted at the boundary, and from there on it
\* follows the law of an uninterrupted walk.
C16_PauseResumeEquivalence ==
    \A r \in Runs : \A k \in 1..Len(pauses) :
        ResumedFrom(r, k) =>
            LET a == pauses[k].act
                q == pauses[k].run
            IN /\ UninterruptedLaw(q)
               /\ \A i \in ActsOf(q) : acts[i].page <= acts[a].page
               /\ HandlerCalls(q) = acts[a].page
               /\ \A i \in TopActs(r) :
                    acts[i].req = ContinuationRequest(acts[a].req, acts[a])
               /\ UninterruptedLaw(r)

\* C16 witness: a run paused on a response that carried a RequestID, the
\* resumed run fetched two further pages and returned
C16_Witness ==
    \E r \in Runs : \E k \in 1..Len(pauses) :
        /\ ResumedFrom(r, k)
        /\ pauses[k].state.continue_request # NoRequestID
        /\ Cardinality(ActsOf(r)) = 2
        /\ HandlerCalls(r) = 2
        /\ RunReturned(r)

\* ---------------------------------------------------------------- C17
\* the Retrieve call of activation i is outstanding
Outstanding(i) == acts[i].pc = "call"

\* C17 (as claimed): the submission for page k+1 is made only after the
\* response for page k was classified MoreDataAvailable and carries that
\* response's RequestID, and a run never has two Retrieve calls outstanding
\* at once.
C17_SequentialFetch ==
    /\ \A j \in 1..Len(acts) :
         acts[j].parent # 0 =>
            /\ acts[acts[j].parent].status = MoreDataAvailable
            /\ PassedClassification(acts[j].parent)
            /\ acts[j].page = acts[acts[j].parent].page + 1
            /\ acts[j].req.ContinueRequest = acts[acts[j].parent].RequestID
    /\ \A i, j \in 1..Len(acts) :
         (acts[i].run = acts[j].run /\ Outstanding(i) /\ Outstanding(j))
            => i = j

\* ---------------------------------------------------------------- C18
\* C18: when the Retrieve for the next page has been submitted, or the
\* pause callback invoked, at the boundary of activation a, the handler of
\* a was already invoked (it may still be running); so along a pagination
\* chain every page before a page whose handler was invoked had its handler
\* invoked too.
C18_HandlerInitiatedFirst ==
    /\ \A k \in 1..Len(pauses) : Handled(pauses[k].act)
    /\ \A a \in 1..Len(acts) : acts[a].ns # "none" => Handled(a)
    /\ \A j \in 1..Len(acts) :
         acts[j].parent # 0 =>
            /\ Handled(acts[j].parent)
            /\ acts[acts[j].parent].page < acts[j].page

\* C18 witness: page 2 was submitted while the handler of page 1 was still
\* running, and the pause callback invoked at the boundary of page 2 while
\* the handler of page 2 was still running
C18_Witness ==
    \E a, j \in 1..Len(acts) : \E k \in 1..Len(pauses) :
        /\ acts[j].parent = a
        /\ acts[a].hs = "running"
        /\ pauses[k].act = j
        /\ acts[j].hs = "running"
        /\ acts[j].ns = "pause"

\* ---------------------------------------------------------------- C19
\* A walk whose only failures are transient failures of the Retrieve calls:
\* the service answers MoreDataAvailable or Success, nothing pauses and the
\* callbacks return.  It is long enough for two pages to use up all but one
\* attempt each.
MaxWalkActs == 2 * max_retries

WalkRetrieveFails(a) ==
    /\ acts[a].pc = "call"
    /\ ShouldRetry(IngestServiceException, acts[a].attempt)
          => Len(acts) < MaxWalkActs
    /\ acts' = Raise(acts, a, IngestServiceException)
    /\ UNCHANGED <<runs, pauses>>

WalkRetrieveResponds(a, status) ==
    /\ acts[a].pc = "call"
    /\ IsMoreData(status) => Len(acts) < MaxWalkActs
    /\ LET as2 == [acts EXCEPT ![a].status = status, ![a].RequestID = a]
           r == NextFirstStep(StartGather(as2, a), pauses, a, FALSE)
       IN /\ acts' = r[1]
          /\ pauses' = r[2]
    /\ UNCHANGED runs

NextWalk ==
    \/ Get
    \/ \E a \in 1..Len(acts) : WalkRetrieveFails(a)
    \/ \E a \in 1..Len(acts), status \in {MoreDataAvailable, Success} :
         WalkRetrieveResponds(a, status)
    \/ \E a \in 1..Len(acts) : HandlerDone(a)

SpecWalk == Init /\ [][NextWalk]_vars

\* the transient failures of the Retrieve call of the page activation i
\* belongs to
TransientFailures(i) ==
    Cardinality({j \in Attempts(i) : CallFailedTransient(j)})

\* C19: in a walk where the Retrieve call of every page failed transiently
\* fewer than max_retries times, whatever the total over the walk, every
\* new page starts with a fresh first attempt, nothing was raised to any
\* awaiter, and the walk returns once the terminal page is answered and the
\* handlers are done.
C19_RetryBudgetPerPage ==
    \A r \in Runs :
        (\A i \in ActsOf(r) : TransientFailures(i) < max_retries) =>
            /\ \A i \in ActsOf(r) :
                 /\ acts[i].err = None
                 /\ acts[i].pc # "raised"
                 /\ acts[i].attempt = 1 + Cardinality({j \in Attempts(i) : j < i})
            /\ ~RunRaised(r)
            /\ ((\E i \in ActsOf(r) : acts[i].status = Success)
                  /\ (\A i \in ActsOf(r) : Handled(i) => acts[i].hs = "done"))
                 => RunReturned(r)

\* C19 witness: two pages, each fetched at its last allowed attempt, so the
\* walk had 2 * (max_retries - 1) >= max_retries transient failures, and it
\* returned
C19_Witness ==
    \E r \in Runs :
        /\ RunReturned(r)
        /\ Cardinality({i \in ActsOf(r) : CallFailedTransient(i)})
             >= max_retries
        /\ \A i \in ActsOf(r) : TransientFailures(i) = max_retries - 1
        /\ \E i \in ActsOf(r) : acts[i].page = 2 /\ acts[i].status = Success

\* ---------------------------------------------------------------- C20
\* the object type of the first request of run r
FirstObjectType(r) == acts[Min(TopActs(r))].req.ObjectType

\* a request that carries a continuation token and nothing else beside the
\* object type
TokenOnly(req) ==
    /\ req.ContinueRequest # NoRequestID
    /\ req.Filter = NoFilter
    /\ req.Properties = None

\* C20 (as claimed): every continuation request and every paused dict of a
\* run carries the object type of the run's first request, and every
\* continuation or resumed request carries a continuation token, no filter
\* and no property list.
C20_ObjectTypeAndTokenOnly ==
    /\ \A j \in 1..Len(acts) :
         acts[j].req.ObjectType = FirstObjectType(acts[j].run)
    /\ \A k \in 1..Len(pauses) :
         pauses[k].state.object_type = FirstObjectType(pauses[k].run)
    /\ \A j \in 1..Len(acts) :
         (acts[j].parent # 0 \/ runs[acts[j].run].kind = "resume")
            => TokenOnly(acts[j].req)
====
